---------------------------- MODULE Spec2Model ----------------------------
(***************************************************************************)
(* Model of 03_neural_networks_tensorflow/02_keras_cnn.ipynb: the CIFAR-10 *)
(* CNN notebook.  Two training entry points (train_network_concise, which  *)
(* calls Keras fit, and train_network, which calls the hand-written        *)
(* train_loop) and the evaluation cells (evaluate, predict, confusion      *)
(* matrix, per-class accuracy).                                            *)
(*                                                                         *)
(* Abstractions.  An image is an identifier (its content is never looked   *)
(* at by the notebook's own code).  The network's numerics are opaque: the *)
(* parameters are a version number that every optimizer application        *)
(* advances, and the output of a forward pass is the term                  *)
(* (parameters, image, dropout masks), so two outputs are equal exactly    *)
(* when nothing that can influence the numerics differs.  Learning rates   *)
(* are counted in units of 0.001.                                          *)
(***************************************************************************)
EXTENDS Integers, Sequences, FiniteSets, TLC

\* ------------------------------------------------------------------ bounds
MaxN == 4
MaxB == 5
MaxE == 2
MaxLabel == 1
MaxMask == 1
MaxTest == 2
MaxTestLabel == 0
MaxParams == 0
MaxCalls == 2

\* ------------------------------------------------------- program constants
TrainSize == 50000
ShuffleBuffer == 50000
ImgH == 32
ImgW == 32
ImgC == 3
NumClasses == 10
AdamDefaultLr == 1
KeepRemainder == FALSE
DropRemainder == TRUE

Classes == 0 .. (NumClasses - 1)
LearningRates == {1, 10}
None == "None"
Unset == <<>>

VARIABLES
    x_train, y_train,      \* the training partition (notebook globals)
    dataset,               \* tf.data pipeline built from the partition
    path,                  \* which entry point is running
    batch_size, n_training_epochs, lr,   \* the caller's three arguments
    params,                \* model parameters (version)
    opt_lr, opt_iterations,\* optimizer: learning rate, applied updates
    pc,                    \* position of the running entry point
    exc,                   \* the exception that ended the run, or None
    i_epoch, i_batch,      \* loop indices
    epoch_steps,           \* train_loop's local epoch_steps
    batches,               \* the pipeline train_loop iterates in this epoch
    batch_iter,            \* the mini-batches that pipeline yields, in order
    batch_data, y_true,    \* the mini-batch being processed
    dropout_active,        \* whether the last forward pass dropped features
    tape, loss, grads,     \* gradient tape, loss and gradients of the batch
    stdout,                \* printed lines
    history,               \* the History object's records
    iterated,              \* mini-batches iterated in each finished epoch
    steps,                 \* the steps run on the mini-batches, in order
    x_test, y_test,        \* the test partition
    decision,              \* class the trained network ranks first, per test image
    scores, predictions, prev_predictions, cm, class_acc, ev,
    calls,                 \* entry-point calls made so far
    n_models, n_opts,      \* models and optimizers constructed so far
    model_id, opt_id,      \* the model and the optimizer of the current run
    used                   \* the (model, optimizer) pairs the run's steps used

trainVars == <<x_train, y_train, dataset, path, batch_size, n_training_epochs,
               lr, params, opt_lr, opt_iterations, pc, exc, i_epoch, i_batch,
               epoch_steps, batches, batch_iter, batch_data, y_true,
               dropout_active, tape, loss, grads, stdout, history, iterated,
               steps>>
evalVars == <<x_test, y_test, decision, scores, predictions, prev_predictions,
              cm, class_acc, ev>>
objVars == <<calls, n_models, n_opts, model_id, opt_id, used>>
vars == <<trainVars, evalVars, objVars>>

\* ------------------------------------------------------------ tf.data
RECURSIVE Product(_)
Product(s) == IF s = <<>> THEN 1 ELSE Head(s) * Product(Tail(s))

\* tf.data.Dataset.from_tensor_slices((x, y)): one element per index, the
\* image and the label at that index paired.
FromTensorSlices(x, y) ==
    [elems |-> [k \in 1 .. Len(x) |-> <<x[k], y[k]>>], buffer |-> 0]

\* Dataset.shuffle(buffer_size) returns a NEW dataset; the receiver is left
\* as it was.
DatasetShuffle(ds, buffer_size) == [ds EXCEPT !.buffer = buffer_size]

\* Dataset.batch(batch_size, drop_remainder) also returns a new dataset.
DatasetBatch(ds, b, drop) ==
    [elems |-> ds.elems, buffer |-> ds.buffer, batch_size |-> b,
     drop_remainder |-> drop]

\* The orders in which a dataset can yield its elements: a shuffle buffer of
\* size s fills with the first s elements, so the element yielded at position
\* j comes from a stored position at most j + s - 1.
Orders(ds) ==
    LET n == Len(ds.elems) IN
    IF ds.buffer = 0 THEN {[k \in 1 .. n |-> k]}
    ELSE {p \in [1 .. n -> 1 .. n] :
            /\ \A a, b \in 1 .. n : a # b => p[a] # p[b]
            /\ \A j \in 1 .. n : p[j] <= j + ds.buffer - 1}

RECURSIVE ChunkStrict(_, _, _)
ChunkStrict(s, b, drop) ==
    IF Len(s) > b THEN <<SubSeq(s, 1, b)>> \o ChunkStrict(SubSeq(s, b + 1, Len(s)), b, drop)
    ELSE IF Len(s) > 0 /\ ~drop THEN <<s>>
    ELSE <<>>

\* Cutting a sequence into batches of b elements; a shorter last batch is
\* kept unless drop_remainder.
RECURSIVE Chunk(_, _, _)
Chunk(s, b, drop) ==
    IF Len(s) >= b THEN <<SubSeq(s, 1, b)>> \o Chunk(SubSeq(s, b + 1, Len(s)), b, drop)
    ELSE IF Len(s) > 0 /\ ~drop THEN <<s>>
    ELSE <<>>

\* One batch as the iterator yields it: the stacked images (a tensor of shape
\* [b, 32, 32, 3]) and the stacked labels.
Stack(elts) ==
    [data |-> [shape |-> <<Len(elts), ImgH, ImgW, ImgC>>,
               items |-> [k \in 1 .. Len(elts) |-> elts[k][1]]],
     labels |-> [k \in 1 .. Len(elts) |-> elts[k][2]]]

\* Every sequence of batches that iterating a batched dataset can yield.
Iterate(bds) ==
    {LET ordered == [k \in 1 .. Len(bds.elems) |-> bds.elems[p[k]]]
         chunks == Chunk(ordered, bds.batch_size, bds.drop_remainder)
     IN  [c \in 1 .. Len(chunks) |-> Stack(chunks[c])] : p \in Orders(bds)}

\* tf.reshape(t, [-1, 32, 32, 3]): the leading dimension is inferred from the
\* number of values; the values keep their order.
Reshape(t) ==
    [shape |-> <<Product(t.shape) \div (ImgH * ImgW * ImgC), ImgH, ImgW, ImgC>>,
     items |-> t.items]

\* ------------------------------------------------------------ the model
\* How Keras settles the training mode of the layers inside a model call:
\* the value passed to the call if there is one, otherwise inference.
TrainingMode(training_arg) ==
    IF training_arg = None THEN FALSE ELSE training_arg = "True"

\* The masks a Dropout layer can draw: 0 drops nothing (the only choice
\* outside training).
DropoutMasks(training) == IF training THEN 0 .. MaxMask ELSE {0}

\* CIFAR10Classifier.call on a batch: drop_4 and drop_6 draw their masks,
\* every other stage is a function of the parameters and the input.
CallModel(ps, items, m4, m6) ==
    [k \in 1 .. Len(items) |->
        [params |-> ps, image |-> items[k], drop_4 |-> m4, drop_6 |-> m6]]

compute_loss(labels, y_pred) == [y_true |-> labels, y_pred |-> y_pred]

\* forward_pass(model, batch_data, y_true): the model is called with no
\* training argument.
ForwardTrainingArg == None
forward_pass(ps, data, labels, m4, m6) ==
    compute_loss(labels, CallModel(ps, data.items, m4, m6))

TrainLoopBatchesShuffled(ds, b) ==
    DatasetBatch(DatasetShuffle(ds, ShuffleBuffer), b, DropRemainder)

\* The pipeline train_loop iterates in an epoch: the result of
\* dataset.shuffle is not bound to anything, and the batches are cut from
\* dataset itself.
TrainLoopBatches(ds, b) ==
    LET shuffled == DatasetShuffle(ds, ShuffleBuffer)
    IN  DatasetBatch(ds, b, DropRemainder)

Log(step) == Append(steps, <<step, i_epoch, i_batch>>)

OnExceptionContinue == "batch_head"

\* Where control goes when a statement of train_loop raises: there is no
\* try statement, so the exception leaves train_loop and train_network.
OnException == "raised"

OptimizerStepTwice(it) == it + 2

\* The optimizer's count of applied updates after one apply_gradients call.
OptimizerStep(it) == it + 1

AfterStepApplyFirst(p) ==
    CASE p = "reshape" -> "forward"
      [] p = "forward" -> "apply"
      [] p = "apply" -> "gradient"
      [] p = "gradient" -> "batch_head"

\* The order of the statements run on one mini-batch: the reshape in the
\* loop body, then train_iteration's forward pass under the tape, its
\* tape.gradient, its apply_gradients, then back to the for statement.
AfterStep(p) ==
    CASE p = "reshape" -> "forward"
      [] p = "forward" -> "gradient"
      [] p = "gradient" -> "apply"
      [] p = "apply" -> "batch_head"

InRangeInclusive(i, n) == i <= n

\* for i_epoch in range(n_training_epochs): whether the range still holds
\* index i (never, for n <= 0).
InRange(i, n) == 0 <= i /\ i < n

\* print("beginning epoch %d" % i_epoch)
ProgressLine(i) == <<"beginning epoch", i>>

TimingLineNext(i) == <<"took", i + 1>>

\* print("took %1.1f seconds for epoch #%d" % (end-start, i_epoch)); the
\* duration is not modelled.
TimingLine(i) == <<"took", i>>

StdoutAtDivisionSilent(i) == stdout

\* What has been printed when int(50000/batch_size) is evaluated: the
\* progress line of the epoch comes three statements earlier.
StdoutAtDivision(i) == Append(stdout, ProgressLine(i))

\* ------------------------------------------------------------ train_network
SharedModel ==
    IF n_models = 0 THEN [id |-> 1, params |-> 0]
    ELSE [id |-> model_id, params |-> params]

\* CIFAR10Classifier(): a new object with newly initialised parameters.
NewModel == [id |-> n_models + 1, params |-> 0]

\* tf.keras.optimizers.Adam(l): a new object that has applied no update.
NewOptimizer(l) == [id |-> n_opts + 1, lr |-> l, iterations |-> 0]

\* The (model, optimizer) pair a training step works on: train_loop hands
\* its own arguments model and opt to every train_iteration call.
StepPair == <<model_id, opt_id>>

\* The body of train_network up to the call of train_loop: the model and the
\* optimizer are local to the call; train_loop's frame, the run's output and
\* the run's logs start empty.
StartTrainNetwork(b, e, l) ==
    /\ path' = "manual"
    /\ batch_size' = b
    /\ n_training_epochs' = e
    /\ lr' = l
    /\ calls' = calls + 1
    /\ LET mnist_model == NewModel
           opt == NewOptimizer(l)
       IN  /\ model_id' = mnist_model.id
           /\ params' = mnist_model.params
           /\ n_models' = IF mnist_model.id > n_models THEN mnist_model.id ELSE n_models
           /\ opt_id' = opt.id
           /\ opt_lr' = opt.lr
           /\ opt_iterations' = opt.iterations
           /\ n_opts' = IF opt.id > n_opts THEN opt.id ELSE n_opts
    /\ used' = {}
    /\ i_epoch' = 0
    /\ pc' = "epoch_head"
    /\ exc' = None
    /\ i_batch' = 0
    /\ epoch_steps' = 0
    /\ batches' = Unset
    /\ batch_iter' = <<>>
    /\ batch_data' = Unset
    /\ y_true' = Unset
    /\ dropout_active' = FALSE
    /\ tape' = "none"
    /\ loss' = Unset
    /\ grads' = Unset
    /\ stdout' = <<>>
    /\ iterated' = <<>>
    /\ steps' = <<>>
    /\ UNCHANGED <<x_train, y_train, dataset, history>>
    /\ UNCHANGED evalVars

\* The cell that calls train_network, run for the first time.
TrainNetwork(b, e, l) ==
    /\ pc = "idle"
    /\ StartTrainNetwork(b, e, l)

\* The same cell run again, after the previous run returned or raised.
TrainNetworkAgain(b, e, l) ==
    /\ pc \in {"done", "raised"}
    /\ path = "manual"
    /\ calls < MaxCalls
    /\ StartTrainNetwork(b, e, l)

\* for i_epoch in range(n_training_epochs): the progress line, epoch_steps,
\* the shuffle call, the batching and the start of the iteration.
EpochBegin ==
    /\ pc = "epoch_head"
    /\ path = "manual"
    /\ InRange(i_epoch, n_training_epochs)
    /\ stdout' = StdoutAtDivision(i_epoch)
    /\ IF batch_size = 0
       THEN /\ exc' = "ZeroDivisionError"      \* int(50000/batch_size)
            /\ pc' = OnException
            /\ UNCHANGED <<epoch_steps, batches, batch_iter, i_batch>>
       ELSE /\ epoch_steps' = TrainSize \div batch_size
            /\ batches' = <<TrainLoopBatches(dataset, batch_size)>>
            /\ batch_iter' \in Iterate(batches'[1])
            /\ i_batch' = 0
            /\ pc' = "batch_head"
            /\ exc' = exc
    /\ UNCHANGED <<x_train, y_train, dataset, path, batch_size,
                   n_training_epochs, lr, params, opt_lr, opt_iterations,
                   i_epoch, batch_data, y_true, dropout_active, tape, loss,
                   grads, history, iterated, steps>>
    /\ UNCHANGED evalVars
    /\ UNCHANGED objVars

\* The for statement yields the next mini-batch and the body reshapes it.
\* i_batch is enumerate's counter: the index of the mini-batch in hand.
ReshapeBatch ==
    /\ pc = "batch_head"
    /\ i_batch < Len(batch_iter)
    /\ batch_data' = <<Reshape(batch_iter[i_batch + 1].data)>>
    /\ y_true' = <<batch_iter[i_batch + 1].labels>>
    /\ steps' = Log("reshape")
    /\ tape' = "none"
    /\ loss' = Unset
    /\ grads' = Unset
    /\ pc' = AfterStep("reshape")
    /\ UNCHANGED <<x_train, y_train, dataset, path, batch_size,
                   n_training_epochs, lr, params, opt_lr, opt_iterations, exc,
                   i_epoch, i_batch, epoch_steps, batches, batch_iter,
                   dropout_active, stdout, history, iterated>>
    /\ UNCHANGED evalVars
    /\ UNCHANGED objVars

\* train_iteration, first statement: the forward pass under the tape.  It
\* either yields the loss or raises.
ForwardPass ==
    /\ pc = "forward"
    /\ steps' = Log("forward")
    /\ \/ /\ dropout_active' = TrainingMode(ForwardTrainingArg)
          /\ \E m4, m6 \in DropoutMasks(dropout_active') :
                loss' = <<forward_pass(params, batch_data[1], y_true[1], m4, m6)>>
          /\ tape' = "recorded"
          /\ pc' = AfterStep("forward")
          /\ exc' = exc
       \/ /\ exc' = "Error"
          /\ pc' = OnException
          /\ UNCHANGED <<dropout_active, loss, tape>>
    /\ UNCHANGED <<x_train, y_train, dataset, path, batch_size,
                   n_training_epochs, lr, params, opt_lr, opt_iterations,
                   i_epoch, i_batch, epoch_steps, batches, batch_iter,
                   batch_data, y_true, grads, stdout, history, iterated>>
    /\ UNCHANGED evalVars
    /\ used' = used \cup {StepPair}
    /\ UNCHANGED <<calls, n_models, n_opts, model_id, opt_id>>

GradientByMinimize ==
    /\ pc = "gradient"
    /\ steps' = Log("gradient")
    /\ grads' = <<[of |-> loss[1], wrt |-> params]>>
    /\ tape' = "released"
    /\ params' = params + 1
    /\ opt_iterations' = OptimizerStep(opt_iterations)
    /\ pc' = AfterStep("gradient")
    /\ UNCHANGED <<x_train, y_train, dataset, path, batch_size,
                   n_training_epochs, lr, opt_lr, exc, i_epoch, i_batch,
                   epoch_steps, batches, batch_iter, batch_data, y_true,
                   dropout_active, loss, stdout, history, iterated>>
    /\ UNCHANGED evalVars
    /\ used' = used \cup {StepPair}
    /\ UNCHANGED <<calls, n_models, n_opts, model_id, opt_id>>

\* grads = tape.gradient(loss, trainable_vars), after the with block.
Gradient ==
    /\ pc = "gradient"
    /\ steps' = Log("gradient")
    /\ \/ /\ grads' = <<[of |-> loss[1], wrt |-> params]>>
          /\ tape' = "released"
          /\ pc' = AfterStep("gradient")
          /\ exc' = exc
       \/ /\ exc' = "Error"
          /\ pc' = OnException
          /\ UNCHANGED <<grads, tape>>
    /\ UNCHANGED <<x_train, y_train, dataset, path, batch_size,
                   n_training_epochs, lr, params, opt_lr, opt_iterations,
                   i_epoch, i_batch, epoch_steps, batches, batch_iter,
                   batch_data, y_true, dropout_active, loss, stdout, history,
                   iterated>>
    /\ UNCHANGED evalVars
    /\ UNCHANGED objVars

\* opt.apply_gradients(zip(grads, trainable_vars)); train_iteration returns
\* and the for statement goes on to the next mini-batch.
ApplyGradients ==
    /\ pc = "apply"
    /\ steps' = Log("apply")
    /\ params' = params + 1
    /\ opt_iterations' = OptimizerStep(opt_iterations)
    /\ i_batch' = i_batch + 1
    /\ pc' = AfterStep("apply")
    /\ UNCHANGED <<x_train, y_train, dataset, path, batch_size,
                   n_training_epochs, lr, opt_lr, exc, i_epoch, epoch_steps,
                   batches, batch_iter, batch_data, y_true, dropout_active,
                   tape, loss, grads, stdout, history, iterated>>
    /\ UNCHANGED evalVars
    /\ used' = used \cup {StepPair}
    /\ UNCHANGED <<calls, n_models, n_opts, model_id, opt_id>>

\* The batches are exhausted: the timing line, then the next epoch.
EpochEnd ==
    /\ pc = "batch_head"
    /\ i_batch >= Len(batch_iter)
    /\ stdout' = Append(stdout, TimingLine(i_epoch))
    /\ iterated' = Append(iterated, i_batch)
    /\ i_epoch' = i_epoch + 1
    /\ pc' = "epoch_head"
    /\ UNCHANGED <<x_train, y_train, dataset, path, batch_size,
                   n_training_epochs, lr, params, opt_lr, opt_iterations, exc,
                   i_batch, epoch_steps, batches, batch_iter, batch_data,
                   y_true, dropout_active, tape, loss, grads, history, steps>>
    /\ UNCHANGED evalVars
    /\ UNCHANGED objVars

\* range(n_training_epochs) is exhausted: train_loop and train_network
\* return (nothing).
LoopExit ==
    /\ pc = "epoch_head"
    /\ path = "manual"
    /\ ~ InRange(i_epoch, n_training_epochs)
    /\ pc' = "done"
    /\ UNCHANGED <<x_train, y_train, dataset, path, batch_size,
                   n_training_epochs, lr, params, opt_lr, opt_iterations, exc,
                   i_epoch, i_batch, epoch_steps, batches, batch_iter,
                   batch_data, y_true, dropout_active, tape, loss, grads,
                   stdout, history, iterated, steps>>
    /\ UNCHANGED evalVars
    /\ UNCHANGED objVars

\* ---------------------------------------------------- train_network_concise
FitStepsDropRemainder(n, b) == n \div b

\* Number of steps Keras fit runs per epoch on n samples: the last, shorter
\* batch is kept.
FitSteps(n, b) == (n + b - 1) \div b

EpochLogsFromOne(epoch, ps) ==
    [epoch |-> epoch + 1, loss |-> <<"loss", ps>>, accuracy |-> <<"accuracy", ps>>]

\* The record fit appends to History at the end of an epoch.
EpochLogs(epoch, ps) ==
    [epoch |-> epoch, loss |-> <<"loss", ps>>, accuracy |-> <<"accuracy", ps>>]

\* The learning rate of the optimizer compile() builds from the name "adam":
\* the argument _lr is not passed on.
ConciseOptimizerLr(l) == AdamDefaultLr

\* cnn_model = CIFAR10Classifier(); compile; fit starts.  Batch sizes below 1
\* and an empty partition are outside what is modelled of fit.
TrainNetworkConcise(b, e, l) ==
    /\ pc = "idle"
    /\ b >= 1
    /\ Len(x_train) >= 1
    /\ path' = "concise"
    /\ batch_size' = b
    /\ n_training_epochs' = e
    /\ lr' = l
    /\ calls' = calls + 1
    /\ LET cnn_model == NewModel
       IN  /\ model_id' = cnn_model.id
           /\ params' = cnn_model.params
           /\ n_models' = cnn_model.id
    /\ opt_id' = n_opts + 1
    /\ n_opts' = n_opts + 1
    /\ opt_lr' = ConciseOptimizerLr(l)
    /\ opt_iterations' = 0
    /\ used' = {}
    /\ history' = <<>>
    /\ i_epoch' = 0
    /\ pc' = "epoch_head"
    /\ UNCHANGED <<x_train, y_train, dataset, exc, i_batch, epoch_steps,
                   batches, batch_iter, batch_data, y_true, dropout_active,
                   tape, loss, grads, stdout, iterated, steps>>
    /\ UNCHANGED evalVars

\* fit, start of an epoch: the "Epoch k/E" line.
FitEpochBegin ==
    /\ pc = "epoch_head"
    /\ path = "concise"
    /\ i_epoch < n_training_epochs
    /\ stdout' = Append(stdout, <<"Epoch", i_epoch + 1, n_training_epochs>>)
    /\ i_batch' = 0
    /\ pc' = "fit_batch"
    /\ UNCHANGED <<x_train, y_train, dataset, path, batch_size,
                   n_training_epochs, lr, params, opt_lr, opt_iterations, exc,
                   i_epoch, epoch_steps, batches, batch_iter, batch_data,
                   y_true, dropout_active, tape, loss, grads, history,
                   iterated, steps>>
    /\ UNCHANGED evalVars
    /\ UNCHANGED objVars

\* fit, one train_step: the model is called with training=True, the
\* gradients are applied.
FitTrainStep ==
    /\ pc = "fit_batch"
    /\ i_batch < FitSteps(Len(x_train), batch_size)
    /\ dropout_active' = TrainingMode("True")
    /\ \E m4, m6 \in DropoutMasks(dropout_active') :
          loss' = <<[params |-> params, drop_4 |-> m4, drop_6 |-> m6]>>
    /\ params' = params + 1
    /\ opt_iterations' = opt_iterations + 1
    /\ i_batch' = i_batch + 1
    /\ UNCHANGED <<x_train, y_train, dataset, path, batch_size,
                   n_training_epochs, lr, opt_lr, pc, exc, i_epoch,
                   epoch_steps, batches, batch_iter, batch_data, y_true, tape,
                   grads, stdout, history, iterated, steps>>
    /\ UNCHANGED evalVars
    /\ used' = used \cup {StepPair}
    /\ UNCHANGED <<calls, n_models, n_opts, model_id, opt_id>>

\* fit, end of an epoch: the "steps/steps" line and the History record.
FitEpochEnd ==
    /\ pc = "fit_batch"
    /\ i_batch >= FitSteps(Len(x_train), batch_size)
    /\ stdout' = Append(stdout, <<"steps", i_batch, i_batch>>)
    /\ history' = Append(history, EpochLogs(i_epoch, params))
    /\ iterated' = Append(iterated, i_batch)
    /\ i_epoch' = i_epoch + 1
    /\ pc' = "epoch_head"
    /\ UNCHANGED <<x_train, y_train, dataset, path, batch_size,
                   n_training_epochs, lr, params, opt_lr, opt_iterations, exc,
                   i_batch, epoch_steps, batches, batch_iter, batch_data,
                   y_true, dropout_active, tape, loss, grads, steps>>
    /\ UNCHANGED evalVars
    /\ UNCHANGED objVars

\* fit returns the History; train_network_concise returns it with the model.
FitReturn ==
    /\ pc = "epoch_head"
    /\ path = "concise"
    /\ i_epoch >= n_training_epochs
    /\ pc' = "done"
    /\ UNCHANGED <<x_train, y_train, dataset, path, batch_size,
                   n_training_epochs, lr, params, opt_lr, opt_iterations, exc,
                   i_epoch, i_batch, epoch_steps, batches, batch_iter,
                   batch_data, y_true, dropout_active, tape, loss, grads,
                   stdout, history, iterated, steps>>
    /\ UNCHANGED evalVars
    /\ UNCHANGED objVars

\* ------------------------------------------------------------ evaluation
\* The labels the test partitions of the model draw from: the lowest classes
\* and the highest one.
TestLabels == (0 .. MaxTestLabel) \cup {NumClasses - 1}

\* numpy.argmax(predictions, axis=1): the class the network ranks first.
ArgMax(preds) == [k \in 1 .. Len(preds) |-> decision[preds[k].image]]

\* numpy's true division of integers: 0/0 is nan, x/0 is inf, neither raises.
TrueDivide(a, b) ==
    [kind |-> IF b # 0 THEN "finite" ELSE IF a = 0 THEN "nan" ELSE "inf",
     num |-> a, den |-> b]

confusion_matrix_swapped(yt, yp) ==
    [i \in Classes |-> [j \in Classes |->
        Cardinality({k \in 1 .. Len(yt) : yt[k] = j /\ yp[k] = i})]]

\* sklearn's confusion_matrix(y_true, y_pred, labels=list(range(10))): entry
\* (i, j) counts the samples of true class i predicted as class j.
confusion_matrix(yt, yp) ==
    [i \in Classes |-> [j \in Classes |->
        Cardinality({k \in 1 .. Len(yt) : yt[k] = i /\ yp[k] = j})]]

RECURSIVE SumTo(_, _)
SumTo(f, j) == IF j < 0 THEN 0 ELSE f[j] + SumTo(f, j - 1)

\* cm.sum(axis=1)[i] and cm.diagonal()[i] / cm.sum(axis=1)[i]
RowSum(m, i) == SumTo(m[i], NumClasses - 1)
PerClass(m) == [i \in Classes |-> TrueDivide(m[i][i], RowSum(m, i))]

PredictInTraining == "True"

\* The training argument Keras predict and evaluate call the model with.
PredictTrainingArg == "False"

\* scores = cnn_model.evaluate(x_test, y_test); the accuracy is printed.
\* cnn_model exists once train_network_concise has returned; an empty test
\* partition is outside what is modelled of evaluate and predict.
Evaluate ==
    /\ ev = "idle"
    /\ pc = "done"
    /\ path = "concise"
    /\ Len(x_test) >= 1
    /\ LET preds == CallModel(params, x_test, 0, 0)
           hits == {k \in 1 .. Len(y_test) : ArgMax(preds)[k] = y_test[k]}
       IN  scores' = <<[accuracy |-> TrueDivide(Cardinality(hits), Len(y_test))]>>
    /\ ev' = "evaluated"
    /\ UNCHANGED <<x_test, y_test, decision, predictions, prev_predictions,
                   cm, class_acc>>
    /\ UNCHANGED trainVars
    /\ UNCHANGED objVars

\* predictions = cnn_model.predict(x_test).  The cell can be run again.
Predict ==
    /\ ev \in {"evaluated", "reported"}
    /\ prev_predictions = Unset
    /\ \E m4, m6 \in DropoutMasks(TrainingMode(PredictTrainingArg)) :
          predictions' = <<CallModel(params, x_test, m4, m6)>>
    /\ prev_predictions' = predictions
    /\ ev' = "predicted"
    /\ UNCHANGED <<x_test, y_test, decision, scores, cm, class_acc>>
    /\ UNCHANGED trainVars
    /\ UNCHANGED objVars

\* cm = confusion_matrix(y_test, argmax(predictions), labels=range(10))
ConfusionMatrix ==
    /\ ev = "predicted"
    /\ cm' = <<confusion_matrix(y_test, ArgMax(predictions[1]))>>
    /\ ev' = "counted"
    /\ UNCHANGED <<x_test, y_test, decision, scores, predictions,
                   prev_predictions, class_acc>>
    /\ UNCHANGED trainVars
    /\ UNCHANGED objVars

\* for i, j in enumerate(cm.diagonal() / cm.sum(axis=1)): print
PerClassAccuracy ==
    /\ ev = "counted"
    /\ class_acc' = <<PerClass(cm[1])>>
    /\ ev' = "reported"
    /\ UNCHANGED <<x_test, y_test, decision, scores, predictions,
                   prev_predictions, cm>>
    /\ UNCHANGED trainVars
    /\ UNCHANGED objVars

\* ------------------------------------------------------------ specification
EvalIdle ==
    /\ x_test = <<>>
    /\ y_test = <<>>
    /\ decision = <<>>
    /\ scores = Unset
    /\ predictions = Unset
    /\ prev_predictions = Unset
    /\ cm = Unset
    /\ class_acc = Unset
    /\ ev = "idle"

\* The notebook after its data cells: the partition is loaded, the pipeline
\* is built (the result of the module-level dataset.shuffle is dropped too),
\* no entry point has been called.
Init ==
    /\ \E n \in 0 .. MaxN :
          /\ x_train = [k \in 1 .. n |-> k]
          /\ y_train \in [1 .. n -> 0 .. MaxLabel]
    /\ dataset = FromTensorSlices(x_train, y_train)
    /\ path = "none"
    /\ batch_size = 0
    /\ n_training_epochs = 0
    /\ lr = 0
    /\ params = 0
    /\ opt_lr = 0
    /\ opt_iterations = 0
    /\ pc = "idle"
    /\ exc = None
    /\ i_epoch = 0
    /\ i_batch = 0
    /\ epoch_steps = 0
    /\ batches = Unset
    /\ batch_iter = <<>>
    /\ batch_data = Unset
    /\ y_true = Unset
    /\ dropout_active = FALSE
    /\ tape = "none"
    /\ loss = Unset
    /\ grads = Unset
    /\ stdout = <<>>
    /\ history = <<>>
    /\ iterated = <<>>
    /\ steps = <<>>
    /\ calls = 0
    /\ n_models = 0
    /\ n_opts = 0
    /\ model_id = 0
    /\ opt_id = 0
    /\ used = {}
    /\ EvalIdle

Next ==
    \/ \E b \in 0 .. MaxB, e \in -1 .. MaxE, l \in LearningRates : TrainNetwork(b, e, l)
    \/ EpochBegin
    \/ ReshapeBatch
    \/ ForwardPass
    \/ Gradient
    \/ ApplyGradients
    \/ EpochEnd
    \/ LoopExit
    \/ \E b \in 0 .. MaxB, e \in 0 .. MaxE, l \in LearningRates : TrainNetworkConcise(b, e, l)
    \/ FitEpochBegin
    \/ FitTrainStep
    \/ FitEpochEnd
    \/ FitReturn

Spec == Init /\ [][Next]_vars

\* The notebook after train_network_concise has returned cnn_model: a test
\* partition, a trained network, no evaluation cell run yet.
EvalInit ==
    /\ x_train = <<>>
    /\ y_train = <<>>
    /\ dataset = FromTensorSlices(x_train, y_train)
    /\ path = "concise"
    /\ batch_size = 1
    /\ n_training_epochs = 0
    /\ lr = 1
    /\ params \in 0 .. MaxParams
    /\ opt_lr = AdamDefaultLr
    /\ opt_iterations = params
    /\ pc = "done"
    /\ exc = None
    /\ i_epoch = 0
    /\ i_batch = 0
    /\ epoch_steps = 0
    /\ batches = Unset
    /\ batch_iter = <<>>
    /\ batch_data = Unset
    /\ y_true = Unset
    /\ dropout_active = FALSE
    /\ tape = "none"
    /\ loss = Unset
    /\ grads = Unset
    /\ stdout = <<>>
    /\ history = <<>>
    /\ iterated = <<>>
    /\ steps = <<>>
    /\ calls = 1
    /\ n_models = 1
    /\ n_opts = 1
    /\ model_id = 1
    /\ opt_id = 1
    /\ used = IF params > 0 THEN {<<1, 1>>} ELSE {}
    /\ \E n \in 1 .. MaxTest :
          /\ x_test = [k \in 1 .. n |-> k]
          /\ y_test \in [1 .. n -> TestLabels]
          /\ decision \in [1 .. n -> Classes]
    /\ scores = Unset
    /\ predictions = Unset
    /\ prev_predictions = Unset
    /\ cm = Unset
    /\ class_acc = Unset
    /\ ev = "idle"

EvalNext ==
    \/ Evaluate
    \/ Predict
    \/ ConfusionMatrix
    \/ PerClassAccuracy

SpecEval == EvalInit /\ [][EvalNext]_vars

\* train_loop runs on one thread and every call blocks until it is over, so
\* a statement that can run does run.
TrainLoopStep ==
    \/ EpochBegin
    \/ ReshapeBatch
    \/ ForwardPass
    \/ Gradient
    \/ ApplyGradients
    \/ EpochEnd
    \/ LoopExit

\* train_network alone, on partitions whose labels are all 0 (train_loop's
\* control flow never reads a label).
LoopInit == Init /\ \A k \in 1 .. Len(y_train) : y_train[k] = 0
LoopNext ==
    \/ \E b \in 0 .. MaxB, e \in -1 .. MaxE, l \in LearningRates : TrainNetwork(b, e, l)
    \/ TrainLoopStep
SpecFair == LoopInit /\ [][LoopNext]_vars /\ WF_vars(TrainLoopStep)

\* train_network called again and again, on partitions whose labels are all
\* 0 (neither the construction of the pair nor the counting of the updates
\* reads a label).
CallsNext ==
    \/ LoopNext
    \/ \E b \in 0 .. MaxB, e \in -1 .. MaxE, l \in LearningRates : TrainNetworkAgain(b, e, l)
SpecCalls == LoopInit /\ [][CallsNext]_vars

\* The training cells and the evaluation cells together.
NotebookInit == Init \/ EvalInit
NotebookNext == Next \/ EvalNext
SpecNotebook == NotebookInit /\ [][NotebookNext]_vars

\* ------------------------------------------------------------------ claims
RECURSIVE SumSeq(_)
SumSeq(q) == IF q = <<>> THEN 0 ELSE Head(q) + SumSeq(Tail(q))

Count(step) == Cardinality({k \in 1 .. Len(steps) : steps[k][1] = step})

InBatch == pc \in {"forward", "gradient", "apply"}

\* The number of epochs a run with n_training_epochs configured goes through.
EpochsRun == IF n_training_epochs > 0 THEN n_training_epochs ELSE 0

\* C1: with batch size B >= 1 and N training samples, every epoch of
\* train_loop iterates floor(N / B) mini-batches, each mini-batch holds B
\* images and B labels, and its k-th label is the label stored with its k-th
\* image.
C1_BatchesPerEpoch ==
    (path = "manual" /\ batch_size >= 1) =>
        /\ \A e \in 1 .. Len(iterated) :
              iterated[e] = Len(x_train) \div batch_size
        /\ InBatch =>
              /\ Len(batch_data[1].items) = batch_size
              /\ batch_data[1].shape[1] = batch_size
              /\ Len(y_true[1]) = batch_size
              /\ \A k \in 1 .. batch_size :
                    \E i \in 1 .. Len(x_train) :
                        /\ x_train[i] = batch_data[1].items[k]
                        /\ y_train[i] = y_true[1][k]

C1_Witness ==
    /\ path = "manual"
    /\ pc = "apply"
    /\ batch_size = 2
    /\ Len(x_train) = 3
    /\ Len(iterated) = 1
    /\ y_true[1][1] # y_true[1][2]

\* C2: a train_network run that returns has applied exactly
\* E * floor(N / B) updates, one per iterated mini-batch.
C2_UpdateSteps ==
    (path = "manual" /\ pc = "done" /\ batch_size >= 1) =>
        /\ opt_iterations = EpochsRun * (Len(x_train) \div batch_size)
        /\ Count("apply") = opt_iterations
        /\ Count("reshape") = opt_iterations
        /\ SumSeq(iterated) = opt_iterations

C2_Witness ==
    /\ path = "manual"
    /\ pc = "done"
    /\ Len(x_train) = 4
    /\ batch_size = 2
    /\ n_training_epochs = 1
    /\ opt_iterations = 2
IsPrefix(a, b) == Len(a) <= Len(b) /\ SubSeq(b, 1, Len(a)) = a

\* C3 as stated: the Training Loop (train_loop under train_network) holds one
\* history record per completed epoch.
C3_LoopKeepsHistory ==
    path = "manual" => Len(history) = Len(iterated)

C3_HistoryInv ==
    /\ path = "manual" => history = <<>>
    /\ path = "concise" =>
          /\ Len(history) = i_epoch
          /\ Len(history) = Len(iterated)
          /\ \A k \in 1 .. Len(history) : history[k].epoch = k - 1
          /\ pc = "done" => Len(history) = n_training_epochs

\* C3, amended: the history is the one fit keeps on the concise path: one
\* record per completed epoch, in epoch order, only ever appended to;
\* train_loop and train_network keep no history at all.
C3_HistoryPerEpoch ==
    [] C3_HistoryInv /\ [][IsPrefix(history, history')]_vars

C3_Witness ==
    /\ path = "concise"
    /\ pc = "done"
    /\ n_training_epochs = 2
    /\ Len(history) = 2

\* C4: with B = N every epoch of train_loop iterates one mini-batch; with
\* B > N every epoch iterates none, nothing is updated, nothing raises and
\* the loop still runs all its epochs and returns.
C4_BoundaryBatchSizes ==
    path = "manual" =>
        /\ (batch_size >= 1 /\ batch_size = Len(x_train)) =>
              \A e \in 1 .. Len(iterated) : iterated[e] = 1
        /\ batch_size > Len(x_train) =>
              /\ \A e \in 1 .. Len(iterated) : iterated[e] = 0
              /\ opt_iterations = 0
              /\ params = 0
              /\ steps = <<>>
              /\ exc = None
              /\ pc \in {"epoch_head", "batch_head", "done"}
              /\ pc # "done" => ENABLED (EpochBegin \/ EpochEnd \/ LoopExit)
              /\ pc = "done" =>
                    /\ Len(iterated) = EpochsRun
                    /\ Len(stdout) = 2 * EpochsRun

C4_Witness ==
    /\ path = "manual"
    /\ pc = "done"
    /\ Len(x_train) = 2
    /\ batch_size = 3
    /\ n_training_epochs = 2
    /\ iterated = <<0, 0>>

\* C5 as stated: in every epoch the mini-batches are cut from a permutation
\* drawn for that epoch, so every order of the partition is one the epoch's
\* pipeline can yield.
C5_ShuffledEachEpoch ==
    (path = "manual" /\ batches # Unset) =>
        LET n == Len(x_train) IN
        \A p \in [1 .. n -> 1 .. n] :
            (\A a, b \in 1 .. n : a # b => p[a] # p[b]) => p \in Orders(batches[1])

\* C6 as stated: in both entry points the optimizer runs with the learning
\* rate the caller passed.
C6_LearningRateUsed ==
    path \in {"manual", "concise"} => opt_lr = lr

\* C7: the entries of the confusion matrix add up to the number of evaluated
\* samples, and row i adds up to the number of samples whose true label is i.
C7_ConfusionMatrixSums ==
    cm # Unset =>
        LET m == cm[1] IN
        /\ SumTo([i \in Classes |-> SumTo(m[i], NumClasses - 1)], NumClasses - 1)
              = Len(y_test)
        /\ \A i \in Classes :
              SumTo(m[i], NumClasses - 1)
                  = Cardinality({k \in 1 .. Len(y_test) : y_test[k] = i})

C7_Witness ==
    /\ ev = "counted"
    /\ Len(y_test) = 2
    /\ y_test[1] = y_test[2]
    /\ decision[1] # y_test[1]
    /\ decision[2] = y_test[2]

\* C8 as stated: every per-class accuracy is a number in [0, 1], the diagonal
\* entry over the row sum, and 0 for a class with no true samples.
C8_PerClassAccuracy ==
    class_acc # Unset =>
        \A i \in Classes :
            LET v == class_acc[1][i]
                r == SumTo(cm[1][i], NumClasses - 1)
            IN  /\ v.kind = "finite"
                /\ 0 <= v.num /\ v.num <= v.den
                /\ r > 0 => v.num * r = cm[1][i][i] * v.den
                /\ r = 0 => v.num = 0

\* C9: two predictions of the same images with the same parameters return
\* the same probability vectors.
C9_InferenceIdempotent ==
    prev_predictions # Unset => prev_predictions = predictions

C9_Witness ==
    /\ prev_predictions # Unset
    /\ predictions # Unset
    /\ ev = "predicted"
    /\ Len(x_test) = 2

\* C10: an exception in the forward pass or the gradient computation leaves
\* train_loop: the run stops there, the failing mini-batch is neither retried
\* nor applied, nothing later is processed and the epoch's timing line is not
\* printed.
C10_ExceptionPropagates ==
    (path = "manual" /\ exc = "Error") =>
        /\ pc = "raised"
        /\ ~ ENABLED Next
        /\ opt_iterations = SumSeq(iterated) + i_batch
        /\ params = opt_iterations
        /\ Count("apply") = opt_iterations
        /\ \A k \in 1 .. Len(steps) : steps[k] # <<"apply", i_epoch, i_batch>>
        /\ Cardinality({k \in 1 .. Len(steps) :
                          steps[k] = <<"reshape", i_epoch, i_batch>>}) = 1
        /\ steps[Len(steps)] \in {<<"forward", i_epoch, i_batch>>,
                                  <<"gradient", i_epoch, i_batch>>}
        /\ Len(iterated) = i_epoch
        /\ \A k \in 1 .. Len(stdout) : stdout[k] # <<"took", i_epoch>>
        /\ stdout[Len(stdout)] = <<"beginning epoch", i_epoch>>

C10_Witness ==
    /\ path = "manual"
    /\ pc = "raised"
    /\ exc = "Error"
    /\ i_epoch = 1
    /\ i_batch = 1
    /\ steps[Len(steps)][1] = "gradient"

ExpectedLine(k) ==
    IF k % 2 = 1 THEN <<"beginning epoch", (k - 1) \div 2>>
    ELSE <<"took", (k \div 2) - 1>>

\* C11: train_loop prints, for every epoch i, one progress line before the
\* epoch's first mini-batch and one timing line after its last mini-batch and
\* before the next progress line; a run of E epochs prints E progress and E
\* timing lines, alternating, for the epochs 0 .. E-1 in order.
C11_ProgressAndTimingLines ==
    path = "manual" =>
        /\ \A k \in 1 .. Len(stdout) : stdout[k] = ExpectedLine(k)
        /\ pc \in {"batch_head", "forward", "gradient", "apply", "raised"} =>
              Len(stdout) = 2 * i_epoch + 1
        /\ pc \in {"epoch_head", "done"} => Len(stdout) = 2 * i_epoch
        /\ \A k \in 1 .. Len(steps) : steps[k][2] <= i_epoch
        /\ pc \in {"epoch_head", "done"} =>
              \A k \in 1 .. Len(steps) : steps[k][2] < i_epoch
        /\ (pc = "done" /\ n_training_epochs >= 0) =>
              Len(stdout) = 2 * n_training_epochs

C11_Witness ==
    /\ path = "manual"
    /\ pc = "done"
    /\ n_training_epochs = 2
    /\ Len(stdout) = 4
    /\ opt_iterations = 4

Cycle == <<"reshape", "forward", "gradient", "apply">>
GroupStart(k) == 4 * ((k - 1) \div 4) + 1

\* C12: on every mini-batch train_loop runs reshape, forward pass (under the
\* tape), gradient computation (after the tape's scope) and optimizer
\* application, in that order and once each, and the four steps of a
\* mini-batch are over before the next mini-batch is reshaped.
C12_StepOrder ==
    path = "manual" =>
        /\ \A k \in 1 .. Len(steps) :
              /\ steps[k][1] = Cycle[((k - 1) % 4) + 1]
              /\ steps[k][2] = steps[GroupStart(k)][2]
              /\ steps[k][3] = steps[GroupStart(k)][3]
              /\ k + 4 <= Len(steps) =>
                    \/ steps[k + 4][2] > steps[k][2]
                    \/ /\ steps[k + 4][2] = steps[k][2]
                       /\ steps[k + 4][3] = steps[k][3] + 1
        /\ pc \in {"epoch_head", "batch_head", "done"} => Len(steps) % 4 = 0
        /\ pc = "forward" =>
              /\ Len(steps) % 4 = 1
              /\ tape = "none" /\ loss = Unset /\ grads = Unset
        /\ pc = "gradient" =>
              /\ Len(steps) % 4 = 2
              /\ tape = "recorded" /\ loss # Unset /\ grads = Unset
        /\ pc = "apply" =>
              /\ Len(steps) % 4 = 3
              /\ tape = "released" /\ grads # Unset /\ grads[1].of = loss[1]
        /\ InBatch => steps[Len(steps)] = <<Cycle[Len(steps) % 4], i_epoch, i_batch>>

C12_Witness ==
    /\ path = "manual"
    /\ pc = "forward"
    /\ i_epoch = 1
    /\ i_batch = 1
    /\ Len(steps) > 8

\* C13: the model parameters change only when the optimizer applies the
\* gradients of a training mini-batch; the reshape, the forward pass, the
\* gradient computation, the prints, evaluate, predict and the confusion
\* matrix and per-class accuracy cells leave the parameters alone, and no step
\* changes the dataset partitions.
C13_ParametersFrame ==
    [][ /\ params' # params =>
              \/ /\ path = "manual"
                 /\ pc = "apply"
                 /\ steps' = Append(steps, <<"apply", i_epoch, i_batch>>)
              \/ /\ path = "concise"
                 /\ pc = "fit_batch"
                 /\ opt_iterations' = opt_iterations + 1
        /\ params' # params => params' = params + 1
        /\ ev' # ev => params' = params
        /\ x_train' = x_train /\ y_train' = y_train /\ dataset' = dataset
        /\ x_test' = x_test /\ y_test' = y_test ]_vars

C13_Witness ==
    /\ ev = "reported"
    /\ prev_predictions # Unset
    /\ params = MaxParams

C14_Returned ==
    (path = "manual" /\ pc = "done") =>
        /\ Len(iterated) = EpochsRun
        /\ Len(stdout) = 2 * EpochsRun
        /\ \A k \in 1 .. EpochsRun : stdout[2 * k - 1] = <<"beginning epoch", k - 1>>
        /\ i_epoch = EpochsRun

C14_NoEpochs ==
    (path = "manual" /\ n_training_epochs <= 0) =>
        /\ pc \in {"epoch_head", "done"}
        /\ stdout = <<>>
        /\ steps = <<>>
        /\ iterated = <<>>
        /\ opt_iterations = 0
        /\ params = 0

\* C14: train_loop always comes to an end: it returns after exactly E epochs,
\* with the indices 0 .. E-1 visited once each in increasing order, unless a
\* step raises; with E <= 0 it runs no epoch, updates nothing and prints
\* nothing.
C14_TrainLoopTerminates ==
    /\ [] (C14_Returned /\ C14_NoEpochs)
    /\ (path = "manual") ~> (pc = "done" \/ exc # None)
    /\ (path = "manual" /\ n_training_epochs <= 0) ~> (pc = "done")

C14_Witness ==
    /\ path = "manual"
    /\ pc = "done"
    /\ Len(x_train) = 3
    /\ batch_size = 1
    /\ n_training_epochs = 2
    /\ iterated = <<3, 3>>
\* The updates applied so far in the current run: those of the epochs that
\* are over and those of the epoch in hand (or of the epoch that raised).
C15_UpdatesSoFar ==
    SumSeq(iterated) + (IF pc \in {"epoch_head", "done"} THEN 0 ELSE i_batch)

\* C15: each call of train_network constructs exactly one new model and
\* exactly one new optimizer, every training step of the run works on that
\* pair, the optimizer's and the model's state at any point of the run is
\* what the run's earlier mini-batches left (across epoch boundaries too),
\* and nothing of an earlier call is carried into the run.
C15_FreshPairPerRun ==
    (path = "manual") =>
        /\ n_models = calls
        /\ n_opts = calls
        /\ model_id = calls
        /\ opt_id = calls
        /\ used \subseteq {<<calls, calls>>}
        /\ (Count("forward") > 0) => used = {<<calls, calls>>}
        /\ opt_lr = lr
        /\ opt_iterations = C15_UpdatesSoFar
        /\ params = C15_UpdatesSoFar

\* The second call of train_network, in its second epoch, about to run the
\* forward pass of the epoch's first mini-batch on state left by epoch 0.
C15_Witness ==
    /\ path = "manual"
    /\ calls = 2
    /\ pc = "forward"
    /\ i_epoch = 1
    /\ i_batch = 0
    /\ opt_iterations = 2
    /\ used = {<<2, 2>>}

\* C16: drop_4 and drop_6 are active in every forward pass of the training
\* loop (the state the forward pass of train_iteration leaves has the model
\* called in training mode) and inactive in every forward pass of predict.
C16_DropoutActiveInTrainingOnly ==
    /\ (path = "manual" /\ pc \in {"gradient", "apply"}) => dropout_active
    /\ predictions # Unset =>
          \A k \in 1 .. Len(predictions[1]) :
              predictions[1][k].drop_4 = 0 /\ predictions[1][k].drop_6 = 0

\* C17 as stated: on N samples with batch size B, an epoch of either path
\* performs floor(N / B) update steps.
C17_SameStepsBothPaths ==
    (path \in {"manual", "concise"} /\ batch_size >= 1) =>
        \A e \in 1 .. Len(iterated) : iterated[e] = Len(x_train) \div batch_size

\* The update steps of one epoch of each path on n samples with batch size b.
C17_ManualSteps(n, b) == n \div b
C17_ConciseSteps(n, b) == (n \div b) + (IF n % b = 0 THEN 0 ELSE 1)

\* C17: an epoch of the manual path performs floor(N / B) update steps and an
\* epoch of the concise path ceil(N / B): one more whenever B does not divide
\* N, the same number when it does; the totals at the end of a run follow.
C17_StepsPerPath ==
    LET n == Len(x_train)
        b == batch_size
    IN  /\ (path = "manual" /\ b >= 1) =>
              /\ \A e \in 1 .. Len(iterated) : iterated[e] = C17_ManualSteps(n, b)
              /\ pc = "done" => opt_iterations = EpochsRun * C17_ManualSteps(n, b)
        /\ (path = "concise" /\ b >= 1) =>
              /\ \A e \in 1 .. Len(iterated) : iterated[e] = C17_ConciseSteps(n, b)
              /\ pc = "done" => opt_iterations = EpochsRun * C17_ConciseSteps(n, b)
              /\ (n % b = 0) <=> (C17_ConciseSteps(n, b) = C17_ManualSteps(n, b))
              /\ (n % b # 0) => C17_ConciseSteps(n, b) = C17_ManualSteps(n, b) + 1

\* The concise path on 3 samples with batch size 2: two steps in each of the
\* two epochs, where the manual path performs one.
C17_Witness ==
    /\ path = "concise"
    /\ pc = "done"
    /\ Len(x_train) = 3
    /\ batch_size = 2
    /\ iterated = <<2, 2>>
    /\ opt_iterations = 4

\* C18 as stated: once the inner loop of an epoch is over, epoch_steps is the
\* number of mini-batches the epoch iterated.
C18_EpochStepsIsBatchCount ==
    (path = "manual" /\ batch_size >= 1 /\ pc = "batch_head"
        /\ i_batch >= Len(batch_iter)) => epoch_steps = i_batch

\* The stored positions a mini-batch of the current epoch holds, and the
\* number of times sample i occurs in the epoch's mini-batches.
C19_Occurrences(i) ==
    Cardinality({jk \in (1 .. Len(batch_iter)) \X (1 .. batch_size) :
                    batch_iter[jk[1]].data.items[jk[2]] = x_train[i]})
C19_Trained == batch_size * (Len(x_train) \div batch_size)

C20_ZeroBatchSizeFails ==
    (path = "manual" /\ batch_size = 0 /\ n_training_epochs >= 1) =>
        /\ pc \in {"epoch_head", "raised"}
        /\ pc = "epoch_head" =>
              /\ i_epoch = 0
              /\ exc = None
              /\ stdout = <<>>
              /\ ENABLED EpochBegin
              /\ ~ ENABLED LoopExit
        /\ pc = "raised" =>
              /\ exc = "ZeroDivisionError"
              /\ i_epoch = 0
              /\ stdout = <<ProgressLine(0)>>
              /\ ~ ENABLED Next
        /\ batches = Unset
        /\ batch_iter = <<>>
        /\ batch_data = Unset
        /\ steps = <<>>
        /\ loss = Unset
        /\ grads = Unset
        /\ iterated = <<>>
        /\ params = 0
        /\ opt_iterations = 0
        /\ used = {}

C20_Witness ==
    /\ path = "manual"
    /\ batch_size = 0
    /\ n_training_epochs = 2
    /\ Len(x_train) = 3
    /\ pc = "raised"
    /\ exc = "ZeroDivisionError"

=============================================================================
